---------------------------- MODULE Spec2Model ----------------------------
(***************************************************************************)
(* A model of ImageFileRenaming.py: the command line loop, the lazy        *)
(* directory walk, the image filter, the capture-time lookup and its       *)
(* reformatting, the confirmation prompt and the move.                     *)
(*                                                                         *)
(* Strings are sequences of one-character strings, so that os.path.split,  *)
(* os.path.splitext, str.lower, strptime and strftime are computed on the  *)
(* characters as the code computes them.                                   *)
(*                                                                         *)
(* What is left out: the lines printed under VERBOSE (they change no       *)
(* state), paths with ".." components, files that are neither regular      *)
(* files nor directories, and a destination that is a directory (no        *)
(* directory of the trees below carries a name the script computes).       *)
(***************************************************************************)
EXTENDS Integers, Sequences, FiniteSets, TLC

(***************************************************************************)
(* Bounds of the model.                                                    *)
(***************************************************************************)
\* the longest command line (number of FILE arguments) that is explored
MaxArgs == 2

\* the most lines standard input holds before its end; input() at the end of
\* the input raises EOFError
MaxInput == 3

(***************************************************************************)
(* Program constants.                                                      *)
(***************************************************************************)
DATE_TIME_ORIGINAL_KEY == 36867

\* os.sep on the platform the script's prompt and paths are written for
sep == "/"

(***************************************************************************)
(* Characters and strings.                                                 *)
(***************************************************************************)
DigitChars == <<"0", "1", "2", "3", "4", "5", "6", "7", "8", "9">>

IsDigit(c) == \E i \in 1..10 : DigitChars[i] = c

DigitVal(c) == (CHOOSE i \in 1..10 : DigitChars[i] = c) - 1

\* s[i], or the empty string past either end of s
At(s, i) == IF i \in 1..Len(s) THEN s[i] ELSE ""

\* str.rfind, 1-based: the last index of c in s, 0 when there is none
rfind(s, c) ==
    LET hits == {i \in 1..Len(s) : s[i] = c}
    IN  IF hits = {} THEN 0 ELSE CHOOSE i \in hits : \A j \in hits : j <= i

\* str.find from position i, 1-based: the first index >= i of c, 0 if none
find(s, c, i) ==
    LET hits == {k \in i..Len(s) : s[k] = c}
    IN  IF hits = {} THEN 0 ELSE CHOOSE k \in hits : \A j \in hits : k <= j

RECURSIVE rstrip(_, _)
rstrip(s, c) ==
    IF s # <<>> /\ s[Len(s)] = c THEN rstrip(SubSeq(s, 1, Len(s) - 1), c) ELSE s

AllAre(s, c) == \A i \in 1..Len(s) : s[i] = c

UpperChars == <<"A", "B", "C", "D", "E", "F", "G", "H", "I", "J", "K", "L", "M",
                "N", "O", "P", "Q", "R", "S", "T", "U", "V", "W", "X", "Y", "Z">>
LowerChars == <<"a", "b", "c", "d", "e", "f", "g", "h", "i", "j", "k", "l", "m",
                "n", "o", "p", "q", "r", "s", "t", "u", "v", "w", "x", "y", "z">>

LowerChar(c) ==
    IF \E i \in 1..26 : UpperChars[i] = c
    THEN LowerChars[CHOOSE i \in 1..26 : UpperChars[i] = c]
    ELSE c

\* str.lower
lower(s) == [i \in 1..Len(s) |-> LowerChar(s[i])]

(***************************************************************************)
(* os.path (posixpath) on strings.                                         *)
(***************************************************************************)
\* os.path.split: <<head, tail>>
os_path_split(p) ==
    LET i    == rfind(p, sep)
        head == SubSeq(p, 1, i)
        tail == SubSeq(p, i + 1, Len(p))
    IN  IF head # <<>> /\ ~AllAre(head, sep)
        THEN <<rstrip(head, sep), tail>>
        ELSE <<head, tail>>

\* os.path.splitext: <<root, ext>>; leading dots of the name are no extension
os_path_splitext(p) ==
    LET sepIndex == rfind(p, sep)
        dotIndex == rfind(p, ".")
    IN  IF dotIndex > sepIndex
           /\ \E k \in (sepIndex + 1)..(dotIndex - 1) : p[k] # "."
        THEN <<SubSeq(p, 1, dotIndex - 1), SubSeq(p, dotIndex, Len(p))>>
        ELSE <<p, <<>>>>

\* the components of p between separators, empty ones included
RECURSIVE Components(_)
Components(p) ==
    LET i == find(p, sep, 1)
    IN  IF i = 0 THEN <<p>>
        ELSE <<SubSeq(p, 1, i - 1)>> \o Components(SubSeq(p, i + 1, Len(p)))

RECURSIVE DropTrivial(_)
DropTrivial(cs) ==
    IF cs = <<>> THEN <<>>
    ELSE IF cs[1] = <<>> \/ cs[1] = <<".">> THEN DropTrivial(Tail(cs))
    ELSE <<cs[1]>> \o DropTrivial(Tail(cs))

\* the process's current directory, /w
Cwd == << <<"w">> >>

\* what the kernel resolves a path string to: the sequence of directory
\* entries from the root (repeated separators and "." components vanish, a
\* relative path starts at the current directory); the empty string names
\* nothing
Resolve(p) ==
    IF At(p, 1) = sep THEN DropTrivial(Components(p))
    ELSE Cwd \o DropTrivial(Components(p))

ParentOf(c) == SubSeq(c, 1, Len(c) - 1)

(***************************************************************************)
(* datetime.strptime(raw, '%Y:%m:%d %H:%M:%S') and                         *)
(* strftime('%Y-%m-%d %H.%M.%S').                                          *)
(***************************************************************************)
\* the length of the run of digits of s that starts at i
RunLen(s, i) ==
    CHOOSE n \in 0..Len(s) :
        /\ \A k \in i..(i + n - 1) : IsDigit(At(s, k))
        /\ ~IsDigit(At(s, i + n))

\* the length of the run of spaces of s that starts at i
SpaceLen(s, i) ==
    CHOOSE n \in 0..Len(s) :
        /\ \A k \in i..(i + n - 1) : At(s, k) = " "
        /\ At(s, i + n) # " "

RECURSIVE Num(_, _, _)
Num(s, i, n) ==
    IF n = 0 THEN 0 ELSE 10 * Num(s, i, n - 1) + DigitVal(s[i + n - 1])

IsLeap(y) == (y % 4 = 0 /\ y % 100 # 0) \/ y % 400 = 0

DaysInMonth(y, m) ==
    IF m = 2 THEN (IF IsLeap(y) THEN 29 ELSE 28)
    ELSE IF m \in {4, 6, 9, 11} THEN 30 ELSE 31

ValueError == [ok |-> FALSE]

\* datetime(Y, m, d, H, M, S): the fields must make a date and a time
MakeDatetime(Y, m, d, H, M, S) ==
    IF /\ Y >= 1
       /\ m \in 1..12
       /\ d >= 1 /\ d <= DaysInMonth(Y, m)
       /\ H \in 0..23 /\ M \in 0..59 /\ S \in 0..59
    THEN [ok |-> TRUE, Y |-> Y, m |-> m, d |-> d, H |-> H, M |-> M, S |-> S]
    ELSE ValueError

\* The format's regular expression matched against the whole string, field
\* by field from position i: every field is the whole run of digits up to
\* the next separator (%Y four digits, the others one or two; %d also a
\* space and one digit), the format's space matches one or more spaces, and
\* nothing may follow the seconds.
Parse_S(s, i, Y, m, d, H, M) ==
    LET n == RunLen(s, i)
    IN  IF n \in {1, 2} /\ i + n - 1 = Len(s)
        THEN MakeDatetime(Y, m, d, H, M, Num(s, i, n))
        ELSE ValueError

Parse_M(s, i, Y, m, d, H) ==
    LET n == RunLen(s, i)
    IN  IF n \in {1, 2} /\ At(s, i + n) = ":"
        THEN Parse_S(s, i + n + 1, Y, m, d, H, Num(s, i, n))
        ELSE ValueError

Parse_H(s, i, Y, m, d) ==
    LET n == RunLen(s, i)
    IN  IF n \in {1, 2} /\ At(s, i + n) = ":"
        THEN Parse_M(s, i + n + 1, Y, m, d, Num(s, i, n))
        ELSE ValueError

Parse_space(s, i, Y, m, d) ==
    LET n == SpaceLen(s, i)
    IN  IF n >= 1 THEN Parse_H(s, i + n, Y, m, d) ELSE ValueError

Parse_d(s, i, Y, m) ==
    LET lead == IF At(s, i) = " " THEN 1 ELSE 0
        n    == RunLen(s, i + lead)
    IN  IF n \in {1, 2} /\ (lead = 1 => n = 1)
        THEN Parse_space(s, i + lead + n, Y, m, Num(s, i + lead, n))
        ELSE ValueError

Parse_m(s, i, Y) ==
    LET n == RunLen(s, i)
    IN  IF n \in {1, 2} /\ At(s, i + n) = ":"
        THEN Parse_d(s, i + n + 1, Y, Num(s, i, n))
        ELSE ValueError

strptime(s) ==
    LET n == RunLen(s, 1)
    IN  IF n = 4 /\ At(s, 5) = ":"
        THEN Parse_m(s, 6, Num(s, 1, 4))
        ELSE ValueError

RECURSIVE Dec(_)
Dec(n) == IF n < 10 THEN <<DigitChars[n + 1]>>
          ELSE Dec(n \div 10) \o <<DigitChars[(n % 10) + 1]>>

Pad2(n) == <<DigitChars[(n \div 10) + 1], DigitChars[(n % 10) + 1]>>

\* '%Y-%m-%d %H.%M.%S'; %Y is the year in decimal (four digits from 1000 on)
strftime(t) ==
    Dec(t.Y) \o <<"-">> \o Pad2(t.m) \o <<"-">> \o Pad2(t.d) \o <<" ">>
    \o Pad2(t.H) \o <<".">> \o Pad2(t.M) \o <<".">> \o Pad2(t.S)

(***************************************************************************)
(* The files and directories the script can meet.                          *)
(***************************************************************************)
Str_dot   == <<".">>
Str_a_j   == <<"a", ".", "j">>
Str_s_c_j == <<"s", "/", "c", ".", "j">>
Str_nx    == <<"n", "x">>

\* raw DateTimeOriginal values: two spellings of one instant (strptime takes
\* fields without their leading zero), a second instant, and a value with
\* the wrong separators
Raw_T1  == <<"2", "0", "2", "0", ":", "0", "5", ":", "0", "1", " ",
             "1", "0", ":", "0", "0", ":", "0", "0">>
Raw_T2  == <<"2", "0", "2", "0", ":", "5", ":", "1", " ",
             "1", "0", ":", "0", ":", "0">>
Raw_T3  == <<"2", "0", "2", "1", ":", "1", "2", ":", "3", "1", " ",
             "2", "3", ":", "5", "9", ":", "5", "9">>
Raw_Bad == <<"2", "0", "2", "0", "-", "0", "5", "-", "0", "1", " ",
             "1", "0", ":", "0", "0", ":", "0", "0">>

\* '2020-05-01 10.00.00.j', a name the script itself gives
Name_T1_j == <<"2", "0", "2", "0", "-", "0", "5", "-", "0", "1", " ",
               "1", "0", ".", "0", "0", ".", "0", "0", ".", "j">>

\* directories, as resolved paths: /, /w (the current directory) and /w/s
Dirs == { <<>>, Cwd, Cwd \o << <<"s">> >> }

Path_a == Cwd \o << <<"a", ".", "j">> >>
Path_t == Cwd \o << Name_T1_j >>
Path_c == Cwd \o << <<"s">>, <<"c", ".", "j">> >>

\* what Image._getexif() gives: None, or a dictionary from tag keys to values
ExifNone      == [none |-> TRUE, tags |-> <<>>]
ExifDict(d)   == [none |-> FALSE, tags |-> d]
ExifWith(raw) == ExifDict([k \in {DATE_TIME_ORIGINAL_KEY} |-> raw])
\* a metadata block with the Make tag (271) only
ExifOther     == ExifDict([k \in {271} |-> <<"X">>])

\* what a file can hold: no image at all, or an image with its metadata
NotAnImage   == [image |-> FALSE, exif |-> ExifNone]
ImageNoExif  == [image |-> TRUE, exif |-> ExifNone]
ImageNoTag   == [image |-> TRUE, exif |-> ExifOther]
ImageAt(raw) == [image |-> TRUE, exif |-> ExifWith(raw)]

File(id, c) == [id |-> id, image |-> c.image, exif |-> c.exif]

NoFile == [id |-> 0, image |-> FALSE, exif |-> ExifNone]

\* The trees a run can start from. Each of /w/a.j, /w/<T1>.j and /w/s/c.j is
\* absent or present. /w/a.j holds any content; /w/<T1>.j holds an image
\* taken at the instant of its name (a file the script has renamed before)
\* or an image taken at another instant; /w/s/c.j holds an image taken at T1
\* or no image.
CandidateIds == (Path_a :> 1) @@ (Path_t :> 2) @@ (Path_c :> 3)

CandidateContents ==
    (Path_a :> { NotAnImage, ImageNoExif, ImageNoTag, ImageAt(Raw_T1),
                 ImageAt(Raw_T2), ImageAt(Raw_T3), ImageAt(Raw_Bad) })
    @@ (Path_t :> { ImageAt(Raw_T1), ImageAt(Raw_T3) })
    @@ (Path_c :> { NotAnImage, ImageAt(Raw_T1) })

InitialTrees ==
    UNION { {t \in [present -> UNION {CandidateContents[p] : p \in present}] :
                \A p \in present : t[p] \in CandidateContents[p]} :
            present \in SUBSET {Path_a, Path_t, Path_c} }

TreeOf(t) == [p \in DOMAIN t |-> File(CandidateIds[p], t[p])]

ArgPaths == {Str_dot, Str_a_j, Str_s_c_j, Str_nx}

ArgLists == UNION { [1..n -> ArgPaths] : n \in 1..MaxArgs }

\* what the user can type at a prompt
Responses ==
    { <<"y">>, <<"Y", "e", "s">>, <<>>, <<"n", "o">>, <<"o", "k">> }

(***************************************************************************)
(* The filesystem and PIL.                                                 *)
(***************************************************************************)
os_path_exists(tree, p) ==
    p # <<>> /\ (Resolve(p) \in DOMAIN tree \/ Resolve(p) \in Dirs)

os_path_isdir(tree, p) == p # <<>> /\ Resolve(p) \in Dirs

os_path_isfile(tree, p) == p # <<>> /\ Resolve(p) \in DOMAIN tree

\* os.path.join of a directory and a name
os_path_join(a, b) ==
    IF a = <<>> \/ a[Len(a)] = sep THEN a \o b ELSE a \o <<sep>> \o b

FileAt(tree, p) == IF os_path_isfile(tree, p) THEN tree[Resolve(p)] ELSE NoFile

\* PIL.Image.open: the image, or IOError for a missing or undecodable file
Image_open(tree, p) ==
    IF FileAt(tree, p).image
    THEN [ok |-> TRUE, exif |-> FileAt(tree, p).exif]
    ELSE [ok |-> FALSE, exif |-> ExifNone]

\* the names of the regular files of a directory, and of its subdirectories
FilesIn(tree, d) == {p[Len(p)] : p \in {q \in DOMAIN tree : ParentOf(q) = d}}

SubdirsIn(d) == {p[Len(p)] : p \in {q \in Dirs : q # <<>> /\ ParentOf(q) = d}}

\* the orders a directory listing can come in
Orders(S) ==
    {f \in [1..Cardinality(S) -> S] : \A i, j \in DOMAIN f : i # j => f[i] # f[j]}

\* shutil.move onto a path that is no directory: os.rename, which replaces
\* whatever file is at the destination
shutil_move(tree, src, dst) ==
    LET s == Resolve(src)
        d == Resolve(dst)
    IN  [p \in (DOMAIN tree \ {s}) \cup {d} |-> IF p = d THEN tree[s] ELSE tree[p]]

(***************************************************************************)
(* The script's functions.                                                 *)
(***************************************************************************)
\* a classifier that takes every file for an image
is_image_file_any(tree, filepath) == TRUE

\* is_image_file: Image.open's IOError becomes False
is_image_file(tree, filepath) == Image_open(tree, filepath).ok

\* get_date_taken: only KeyError is caught. Subscripting the None that
\* _getexif() returns for an image without a metadata block is a TypeError
\* (an image class without _getexif gives AttributeError instead, just as
\* uncaught), an undecodable file an IOError, a value strptime rejects a
\* ValueError; each of them leaves the function.
get_date_taken(tree, filepath) ==
    LET im == Image_open(tree, filepath)
    IN  IF ~im.ok THEN [kind |-> "raise", exc |-> "IOError", value |-> <<>>]
        ELSE IF im.exif.none
        THEN [kind |-> "raise", exc |-> "TypeError", value |-> <<>>]
        ELSE IF DATE_TIME_ORIGINAL_KEY \notin DOMAIN im.exif.tags
        THEN [kind |-> "none", exc |-> "", value |-> <<>>]
        ELSE LET date_taken == strptime(im.exif.tags[DATE_TIME_ORIGINAL_KEY])
             IN  IF ~date_taken.ok
                 THEN [kind |-> "raise", exc |-> "ValueError", value |-> <<>>]
                 ELSE [kind |-> "value", exc |-> "", value |-> strftime(date_taken)]

\* new_filepath = dir_name + os.sep + date_taken_timestamp + extension
new_filepath(filepath, date_taken_timestamp) ==
    os_path_split(filepath)[1] \o <<sep>> \o date_taken_timestamp
    \o os_path_splitext(filepath)[2]

\* the test without the lower()
should_rename_as_typed(typed) == typed \in { <<"y">>, <<"y", "e", "s">> }

\* should_rename = response in ('y', 'yes'), response being input().lower()
should_rename(typed) == lower(typed) \in { <<"y">>, <<"y", "e", "s">> }

(***************************************************************************)
(* The state of a run.                                                     *)
(***************************************************************************)
VARIABLES
    fs,        \* the regular files: resolved path -> file
    args,      \* args.files
    recurse,   \* args.recursive
    force,     \* args.force
    entry,     \* "main": the script is run; "lib": a caller of the module
               \* calls rename_images_by_date_taken(args[1], recurse, force)
    pc,        \* "main", "lib", "walk", "prompt" or "end"
    argi,      \* how many of args the loop of __main__ has taken
    gen,       \* the generator of get_files_in_directory: "none", "created"
               \* (called, no line of its body run yet), "active" or "done"
    top,       \* the dirpath the generator was called with
    cur_dir,   \* dirpath of the os.walk triple being iterated
    files,     \* the file names of that triple still to be yielded
    todo,      \* the directories os.walk has still to list, next first
    pending,   \* the rename the prompt is asking about
    response,  \* the last line input() returned, as typed
    nread,     \* how many lines of standard input have been read
    status,    \* "running", "exit0" (the process ended, exit code 0),
               \* "returned" (the library call returned) or "raised"
    exc,       \* the exception that ended the run, "" if none
    log        \* one record for each file the run has dealt with

vars == <<fs, args, recurse, force, entry, pc, argi, gen, top, cur_dir, files,
          todo, pending, response, nread, status, exc, log>>

walk_vars == <<gen, top, cur_dir, files, todo>>

NoPending == [filepath |-> <<>>, new_filepath |-> <<>>]

Init ==
    /\ fs \in {TreeOf(t) : t \in InitialTrees}
    /\ entry \in {"main", "lib"}
    /\ args \in ArgLists
    /\ entry = "lib" => Len(args) = 1
    /\ recurse \in BOOLEAN
    /\ force \in BOOLEAN
    /\ pc = entry
    /\ argi = 0
    /\ gen = "none"
    /\ top = <<>>
    /\ cur_dir = <<>>
    /\ files = <<>>
    /\ todo = <<>>
    /\ pending = NoPending
    /\ response = <<>>
    /\ nread = 0
    /\ status = "running"
    /\ exc = ""
    /\ log = <<>>

\* where control goes when rename_image_by_date_taken returns: into the for
\* loop of rename_images_by_date_taken, or into the one of __main__
ReturnPc == IF gen = "active" THEN "walk" ELSE "main"

Entry(a, filepath, outcome, dst) ==
    [arg |-> a, filepath |-> filepath, file |-> FileAt(fs, filepath),
     outcome |-> outcome, new_filepath |-> dst]

Raise(e) ==
    /\ status' = "raised"
    /\ exc' = e
    /\ pc' = "end"

\* a handler that returns from rename_image_by_date_taken where the code
\* leaves the process
OnPromptCancelled_returns ==
    /\ pc' = ReturnPc
    /\ UNCHANGED <<status, exc>>

\* the prompt's except clause: exit(), that is SystemExit with no code, which
\* nothing catches: the process ends with exit code 0
OnPromptCancelled ==
    /\ status' = "exit0"
    /\ pc' = "end"
    /\ UNCHANGED exc

\* One file of the walk (is_image_file as the generator's filter) or the
\* file argument of __main__, through rename_image_by_date_taken up to its
\* return, its exception or its input() call; a is the index in args.files of
\* the argument being dealt with.
HandleFile(a, filepath) ==
    IF ~is_image_file(fs, filepath)
    THEN /\ log' = Append(log, Entry(a, filepath, "notimage", <<>>))
         /\ pc' = ReturnPc
         /\ UNCHANGED <<fs, pending, status, exc>>
    ELSE LET date_taken_timestamp == get_date_taken(fs, filepath)
             dst == new_filepath(filepath, date_taken_timestamp.value)
         IN  IF date_taken_timestamp.kind = "raise"
             THEN /\ log' = Append(log, Entry(a, filepath, "raised", <<>>))
                  /\ Raise(date_taken_timestamp.exc)
                  /\ UNCHANGED <<fs, pending>>
             ELSE IF date_taken_timestamp.kind = "none"
             THEN /\ log' = Append(log, Entry(a, filepath, "nodate", <<>>))
                  /\ pc' = ReturnPc
                  /\ UNCHANGED <<fs, pending, status, exc>>
             ELSE IF force
             THEN /\ fs' = shutil_move(fs, filepath, dst)
                  /\ log' = Append(log, Entry(a, filepath, "moved", dst))
                  /\ pc' = ReturnPc
                  /\ UNCHANGED <<pending, status, exc>>
             ELSE /\ pending' = [filepath |-> filepath, new_filepath |-> dst]
                  /\ pc' = "prompt"
                  /\ UNCHANGED <<fs, log, status, exc>>

\* for path in args.files: the next argument
MainNext ==
    /\ pc = "main"
    /\ argi < Len(args)
    /\ argi' = argi + 1
    /\ UNCHANGED <<args, recurse, force, entry, response, nread>>
    /\ LET path == args[argi + 1]
       IN  IF ~os_path_exists(fs, path)
           THEN /\ Raise("FileNotFoundError")
                /\ UNCHANGED <<fs, pending, log, walk_vars>>
           ELSE IF os_path_isdir(fs, path)
           THEN /\ gen' = "created"
                /\ top' = path
                /\ pc' = "walk"
                /\ UNCHANGED <<fs, pending, log, status, exc, cur_dir, files, todo>>
           ELSE IF os_path_isfile(fs, path)
           THEN /\ HandleFile(argi + 1, path)
                /\ UNCHANGED walk_vars
           ELSE /\ Raise("RuntimeError")
                /\ UNCHANGED <<fs, pending, log, walk_vars>>

\* the loop of __main__ is over: the script ends
MainEnd ==
    /\ pc = "main"
    /\ argi = Len(args)
    /\ pc' = "end"
    /\ status' = "exit0"
    /\ UNCHANGED <<fs, args, recurse, force, entry, argi, walk_vars, pending,
                   response, nread, exc, log>>

\* a caller of the module calls rename_images_by_date_taken itself
LibCall ==
    /\ pc = "lib"
    /\ gen' = "created"
    /\ top' = args[1]
    /\ argi' = 1
    /\ pc' = "walk"
    /\ UNCHANGED <<fs, args, recurse, force, entry, cur_dir, files, todo,
                   pending, response, nread, status, exc, log>>

\* the for loop of rename_images_by_date_taken ends
LoopEnds ==
    IF entry = "lib"
    THEN pc' = "end" /\ status' = "returned"
    ELSE pc' = "main" /\ UNCHANGED status

\* os.walk lists directory d: the names are read once, in some order, before
\* the triple is yielded; the subdirectories are walked after it
ListDir(d, rest) ==
    \E fo \in Orders(FilesIn(fs, Resolve(d))), so \in Orders(SubdirsIn(Resolve(d))) :
        /\ cur_dir' = d
        /\ files' = fo
        /\ todo' = IF recurse
                   THEN [i \in 1..Len(so) |-> os_path_join(d, so[i])] \o rest
                   ELSE <<>>

\* The first pull: the body of get_files_in_directory starts. os.walk of a
\* path that is no directory yields nothing (its onerror is None); with
\* should_recurse false, next() of it then raises StopIteration inside the
\* generator, which Python 3.7 and later turn into RuntimeError and earlier
\* versions into the end of the generator.
WalkStart ==
    /\ pc = "walk"
    /\ gen = "created"
    /\ UNCHANGED <<fs, args, recurse, force, entry, argi, top, pending,
                   response, nread, log>>
    /\ IF os_path_isdir(fs, top)
       THEN /\ ListDir(top, <<>>)
            /\ gen' = "active"
            /\ UNCHANGED <<pc, status, exc>>
       ELSE /\ UNCHANGED <<cur_dir, files, todo>>
            /\ gen' = "done"
            /\ \E stop_iteration \in IF recurse THEN {"ends"}
                                      ELSE {"ends", "RuntimeError"} :
                  IF stop_iteration = "RuntimeError"
                  THEN Raise("RuntimeError")
                  ELSE LoopEnds /\ UNCHANGED exc

\* a pull that yields the next file name of the current triple
WalkFile ==
    /\ pc = "walk"
    /\ gen = "active"
    /\ files # <<>>
    /\ files' = Tail(files)
    /\ HandleFile(argi, cur_dir \o <<sep>> \o Head(files))
    /\ UNCHANGED <<args, recurse, force, entry, argi, gen, top, cur_dir, todo,
                   response, nread>>

\* a pull that finds the triple used up: os.walk goes on to the next directory
WalkDir ==
    /\ pc = "walk"
    /\ gen = "active"
    /\ files = <<>>
    /\ todo # <<>>
    /\ ListDir(Head(todo), Tail(todo))
    /\ UNCHANGED <<fs, args, recurse, force, entry, pc, argi, gen, top, pending,
                   response, nread, status, exc, log>>

\* a pull that finds nothing left: the generator is exhausted
WalkEnd ==
    /\ pc = "walk"
    /\ gen = "active"
    /\ files = <<>>
    /\ todo = <<>>
    /\ gen' = "done"
    /\ LoopEnds
    /\ UNCHANGED <<fs, args, recurse, force, entry, argi, top, cur_dir, files,
                   todo, pending, response, nread, exc, log>>

\* input() returns what the user typed
Respond ==
    /\ pc = "prompt"
    /\ nread < MaxInput
    /\ nread' = nread + 1
    /\ \E typed \in Responses :
          /\ response' = typed
          /\ log' = Append(log, Entry(argi, pending.filepath,
                                      IF should_rename(typed) THEN "moved"
                                      ELSE "declined",
                                      pending.new_filepath))
          /\ fs' = IF should_rename(typed)
                   THEN shutil_move(fs, pending.filepath, pending.new_filepath)
                   ELSE fs
    /\ pending' = NoPending
    /\ pc' = ReturnPc
    /\ UNCHANGED <<args, recurse, force, entry, argi, walk_vars, status, exc>>

\* input() raises EOFError (the input is at its end) or KeyboardInterrupt
Cancel ==
    /\ pc = "prompt"
    /\ log' = Append(log, Entry(argi, pending.filepath, "cancelled",
                                pending.new_filepath))
    /\ pending' = NoPending
    /\ OnPromptCancelled
    /\ UNCHANGED <<fs, args, recurse, force, entry, argi, walk_vars, response,
                   nread>>

Next ==
    \/ MainNext
    \/ MainEnd
    \/ LibCall
    \/ WalkStart
    \/ WalkFile
    \/ WalkDir
    \/ WalkEnd
    \/ Respond
    \/ Cancel

Spec == Init /\ [][Next]_vars

(***************************************************************************)
(* The claims.                                                             *)
(***************************************************************************)
Last(q) == q[Len(q)]

Moved == {i \in DOMAIN log : log[i].outcome = "moved"}

HasTag(f) == f.image /\ ~f.exif.none /\ DATE_TIME_ORIGINAL_KEY \in DOMAIN f.exif.tags

RawTag(f) == f.exif.tags[DATE_TIME_ORIGINAL_KEY]

\* C1: every move renames in place: the destination lies in the directory of
\* the source, and its name is the canonical timestamp followed by the
\* source's extension.
C1_RenamedInPlace ==
    \A i \in Moved :
        LET src == Resolve(log[i].filepath)
            dst == Resolve(log[i].new_filepath)
        IN  /\ ParentOf(dst) = ParentOf(src)
            /\ Last(dst) = strftime(strptime(RawTag(log[i].file)))
                           \o os_path_splitext(Last(src))[2]

\* C2: no move is issued whose destination is the path of its source.
C2_NeverOntoItself ==
    \A i \in Moved : Resolve(log[i].new_filepath) # Resolve(log[i].filepath)

\* C3: no step of a run moves a file onto a path that holds another file,
\* and the number of files stays what it was.
C3_ConflictFree ==
    [][/\ \A p \in DOMAIN fs \cap DOMAIN fs' : fs'[p].id = fs[p].id
       /\ Cardinality(DOMAIN fs') = Cardinality(DOMAIN fs)]_vars

\* C4: a decodable image with no capture-time tag, or with no metadata block
\* at all, is skipped: nothing is raised and the file is not moved.
C4_MissingMetadataSkips ==
    \A i \in DOMAIN log :
        (log[i].file.image /\ ~HasTag(log[i].file)) => log[i].outcome = "nodate"

\* C7: an image whose capture-time tag does not match the format is skipped:
\* nothing is raised, the file is not moved, the run goes on.
C7_MalformedSkips ==
    \A i \in DOMAIN log :
        (HasTag(log[i].file) /\ ~strptime(RawTag(log[i].file)).ok)
            => /\ log[i].outcome \notin {"raised", "moved"}
               /\ status # "raised"

\* C8: within the walk of one directory argument, a file that has been moved
\* is not met again: no later path of that walk holds it.
C8_MovedAtMostOnce ==
    \A i \in Moved : \A j \in DOMAIN log :
        (i < j /\ log[j].arg = log[i].arg) => log[j].file.id # log[i].file.id

\* C10: get_files_in_directory on a root that does not exist has failed by
\* the time the generator is handed to its caller, and it never ends as an
\* empty sequence.
C10_MissingRootFails ==
    (gen \in {"created", "done"} /\ ~os_path_exists(fs, top)) => status = "raised"

Cancelled == {i \in DOMAIN log : log[i].outcome = "cancelled"}

\* C5: the step that cancels a prompt ends the run with exit code 0 and
\* leaves every file where it is (the file asked about is not moved, the
\* files moved before stay moved), and once a prompt has been cancelled
\* nothing is moved, asked or dealt with any more.
C5_CancelStopsRun ==
    [][/\ (pc = "prompt" /\ Cancelled' # {})
            => /\ fs' = fs
               /\ status' = "exit0"
               /\ pc' = "end"
               /\ exc' = ""
               /\ FileAt(fs', Last(log').filepath).id = Last(log').file.id
       /\ Cancelled # {} => UNCHANGED vars]_vars

\* a run without force in which a prompt was cancelled after an earlier file
\* had been moved, with an argument of the command line still to come
C5_Witness ==
    /\ ~force
    /\ status = "exit0"
    /\ log # <<>>
    /\ Last(log).outcome = "cancelled"
    /\ Moved # {}
    /\ argi < Len(args)
    /\ \A i \in Moved : FileAt(fs, log[i].new_filepath).id = log[i].file.id

\* 'y' and 'yes' in any mix of upper and lower case
Affirmative ==
    { <<y>> : y \in {"y", "Y"} }
    \cup { <<y, e, z>> : y \in {"y", "Y"}, e \in {"e", "E"}, z \in {"s", "S"} }

\* C6: without force, the files change only in the step that reads an
\* affirmative response, and that step moves the file the prompt asked
\* about; any other response leaves every file in place and the run goes on.
C6_MovedIffAffirmative ==
    [][~force =>
         /\ (fs' # fs \/ Moved' # Moved)
               => (pc = "prompt" /\ nread' = nread + 1 /\ response' \in Affirmative)
         /\ (pc = "prompt" /\ nread' = nread + 1) =>
               IF response' \in Affirmative
               THEN LET src == Resolve(pending.filepath)
                        dst == Resolve(pending.new_filepath)
                    IN  /\ Last(log').outcome = "moved"
                        /\ dst \in DOMAIN fs'
                        /\ fs'[dst].id = fs[src].id
                        /\ src # dst => src \notin DOMAIN fs'
               ELSE /\ fs' = fs
                    /\ Last(log').outcome = "declined"
                    /\ status' = "running"
                    /\ pc' \in {"walk", "main"}]_vars

\* a walk without force in which one prompt was declined and a later one,
\* answered 'Yes', moved its file to another path
C6_Witness ==
    /\ ~force
    /\ response = <<"Y", "e", "s">>
    /\ log # <<>>
    /\ Last(log).outcome = "moved"
    /\ Resolve(Last(log).filepath) # Resolve(Last(log).new_filepath)
    /\ Resolve(Last(log).filepath) \notin DOMAIN fs
    /\ \E i \in DOMAIN log : log[i].outcome = "declined" /\ log[i].arg = argi

\* C9: a step that deals with a file that cannot be decoded as an image
\* changes no file, raises nothing and reads no input, and no prompt is ever
\* about such a file.
C9_NonImageUntouched ==
    [][/\ (log' # log /\ ~Last(log').file.image)
            => /\ Last(log').outcome = "notimage"
               /\ fs' = fs
               /\ status' = status
               /\ exc' = exc
               /\ nread' = nread
       /\ pc' = "prompt" => FileAt(fs', pending'.filepath).image]_vars

\* a finished run that met a non-image in a directory walk and another as a
\* file argument
C9_Witness ==
    /\ status = "exit0"
    /\ \E i, j \in DOMAIN log :
          /\ log[i].file.id # 0 /\ ~log[i].file.image
          /\ log[j].file.id # 0 /\ ~log[j].file.image
          /\ log[i].outcome = "notimage" /\ log[j].outcome = "notimage"
          /\ os_path_isdir(fs, args[log[i].arg])
          /\ os_path_isfile(fs, args[log[j].arg])

=============================================================================
